---- MODULE Spec2Model ----
(***************************************************************************)
(* A state-machine model of the SkyPilot agent of flytekit                 *)
(* (plugins/flytekit-skypilot/flytekitplugins/skypilot/agent.py):          *)
(* SkyTaskFuture (one controller per launched job, three supervised        *)
(* coroutines and their done-callbacks), SkyTaskTracker (the process-wide  *)
(* registry and the cluster teardown), the agent's get, and its delete     *)
(* path with the remote liveness check; and of three smaller components:   *)
(* the backend plugin server, the shared-memory pod template helper of     *)
(* the kfpytorch plugin and the Slack notifier.                            *)
(***************************************************************************)
EXTENDS Integers, Sequences, FiniteSets, TLC

\* ------------------------------------------------------------------ bounds

\* register_sky_task calls in one run of the registry specification.
MaxCtl == 2
\* register_sky_task calls in one run of the controller specification.
MaxSolo == 1
\* Out-of-band (remote) deletions issued in one run.
MaxRemoteDeletes == 1
\* Seconds by which the heartbeat ages explored go past the threshold.
MaxOver == 100
\* Seconds by which the clock may be behind the heartbeat's timestamp.
MaxSkew == 2
\* Containers of a pod template handed to add_shared_mem_volume_to_pod_template.
MaxContainers == 3
\* Calls of add_shared_mem_volume_to_pod_template on one pod template.
MaxPodCalls == 2
\* send_notification calls in one run.
MaxNotifications == 3

\* --------------------------------------------------------------- constants

\* sky.skylet.constants.CONTROLLER_IDLE_MINUTES_TO_AUTOSTOP, as agent.py:360
\* reads it; multiplied by 60 there.
CONTROLLER_IDLE_MINUTES_TO_AUTOSTOP == 10

None == << >>
JOB_CONTROLLER_NAME == "sky-jobs-controller"

\* The task templates handed to create(): custom["task_name"],
\* custom["cluster_name"], custom["job_launch_type"].
TaskTemplates ==
    { [task_name |-> "t1", cluster_name |-> "c1", job_launch_type |-> "NORMAL"],
      [task_name |-> "t2", cluster_name |-> "c1", job_launch_type |-> "NORMAL"],
      [task_name |-> "t1", cluster_name |-> "c1", job_launch_type |-> "MANAGED"] }

TaskNames == { tt.task_name : tt \in TaskTemplates }
Clusters == { "c1", JOB_CONTROLLER_NAME }
Coroutines == { "launch", "deletion", "upload" }
\* What sky.stop does when called: returns, raises NotSupportedError, or
\* raises another error of the provider.
StopOutcomes == { "ok", "NotSupportedError", "Error" }
\* How the launch worker process ends.
WorkerOutcomes == { "sent_none", "sent_exc", "crashed" }

VARIABLES
    ctrl,             \* the SkyTaskFuture objects constructed so far, in order
    registry,         \* SkyTaskTracker._JOB_RESIGTRY: task_name -> index in ctrl, 0 = absent
    markers,          \* touch markers present in the remote path registry (unique ids)
    zip_coros,        \* number of zip/sync tasks created (SkyTaskTracker._zip_coro)
    stop_calls,       \* cluster_name -> number of sky.stop calls
    down_calls,       \* number of sky.down calls made by remote_deletion
    remote_deletes,   \* number of deletion markers uploaded by remote_deletion
    last_alive,       \* result of the last check_remote_agent_alive
    utc_time,         \* datetime.now(timezone.utc) at the last liveness check, seconds
    last_upload_time, \* last_upload_time() at the last liveness check, seconds or None
    loop_errors,      \* << i, what >>: exceptions that escaped a done-callback of
                      \* controller i to the event loop ("task": the task's own
                      \* exception, "teardown": one raised by the teardown callback)
    status_file,      \* task_name -> what the job's remote status file holds
    get_result,       \* what the last SkyPilotAgent.get did, None before the first
    plugin_registry,  \* BackendPluginRegistry: the task types with a registered plugin
    rpc,              \* the last call of the BackendPluginServer and what it returned
    pod_template,     \* the PodTemplate handed to add_shared_mem_volume_to_pod_template
    pod_raised,       \* whether the last call of it raised ValueError
    pod_calls,        \* calls of it so far
    slack_log,        \* the log lines written by SlackNotifier.send_notification
    slack_posted,     \* the messages chat_postMessage delivered
    slack_call,       \* the last send_notification call and how it ended
    slack_calls,      \* send_notification calls so far
    remote_call       \* the last remote_deletion call and how it ended

\* The state of the SkyPilot agent.
agent_vars == << ctrl, registry, markers, zip_coros, stop_calls, down_calls,
                 remote_deletes, last_alive, utc_time, last_upload_time, loop_errors,
                 status_file, get_result >>

\* The state of the backend plugin server, of the pod template helper and of
\* the Slack notifier.
server_vars == << plugin_registry, rpc >>
pod_vars == << pod_template, pod_raised, pod_calls >>
slack_vars == << slack_log, slack_posted, slack_call, slack_calls >>
remote_vars == << remote_call >>
ext_vars == << server_vars, pod_vars, slack_vars, remote_vars >>

vars == << agent_vars, ext_vars >>

\* ------------------------------------------------------------ EventHandler

EventHandler == [launch_done |-> FALSE, failed |-> FALSE, cancel |-> FALSE, finished |-> FALSE]

\* "Terminal" = any of failed, cancel, finished is set.
is_terminal(ev) == ev.failed \/ ev.cancel \/ ev.finished

\* -------------------------------------------------- remote path registry

\* The unique id of a job's paths: a function of its identity.
unique_id(c) == << c.job_launch_type, c.cluster_name, c.task_name >>

task_exists(ms, id) == id \in ms

\* touch_task creating no marker.
touch_task_lost(ms, id) == ms

touch_task(ms, id) == ms \cup {id}

delete_task(ms, id) == ms \ {id}

UniqueIds == { << tt.job_launch_type,
                  IF tt.job_launch_type = "MANAGED" THEN JOB_CONTROLLER_NAME ELSE tt.cluster_name,
                  tt.task_name >> : tt \in TaskTemplates }

\* ------------------------------------------------------------ SkyTaskFuture

\* SkyTaskFuture.__init__: the class attributes' defaults and the names.
SkyTaskFuture(tt) ==
    [ task_name       |-> tt.task_name,
      cluster_name    |-> IF tt.job_launch_type = "MANAGED"
                          THEN JOB_CONTROLLER_NAME ELSE tt.cluster_name,
      job_launch_type |-> tt.job_launch_type,
      task_status     |-> "INIT",
      started         |-> FALSE,
      ev              |-> EventHandler,
      coro            |-> [k \in Coroutines |-> "none"],
      proc            |-> "none",
      raised          |-> FALSE,
      n_proc          |-> 0,
      n_clean         |-> 0,
      n_done          |-> 0,
      n_teardown      |-> 0,
      sky_stop        |-> "none",
      error_log       |-> FALSE,
      cb_after_terminal |-> FALSE ]

\* start() assigning TaskStatus.LAUNCHING.
start_status_launching(c) == "LAUNCHING"

\* The status start() leaves: it assigns no _task_status.
start_status(c) == c.task_status

\* start() calling launch_process_wrapper twice: a second worker process.
start_two_workers(c) ==
    [c EXCEPT !.started = TRUE,
              !.ev = EventHandler,
              !.task_status = start_status(c),
              !.proc = "running",
              !.n_proc = @ + 2,
              !.coro = [k \in Coroutines |-> IF k = "launch" THEN "created" ELSE "running"]]

\* SkyTaskFuture.start: a fresh EventHandler, the launch worker process
\* (BlockingProcessHandler.__init__ starts it) and the three tasks.
start(c) ==
    [c EXCEPT !.started = TRUE,
              !.ev = EventHandler,
              !.task_status = start_status(c),
              !.proc = "running",
              !.n_proc = @ + 1,
              !.coro = [k \in Coroutines |-> IF k = "launch" THEN "created" ELSE "running"]]

\* cancel() running the teardown callback itself.
cancel_with_teardown(c) == [c EXCEPT !.ev.cancel = TRUE, !.n_teardown = @ + 1]

\* SkyTaskFuture.cancel
cancel(c) == [c EXCEPT !.ev.cancel = TRUE]

\* ----------------------------------------------------------- SkyTaskTracker

\* try_first_register: the zip task is created unless the registry is non-empty.
try_first_register(reg, n) == IF \E t \in TaskNames : reg[t] /= 0 THEN n ELSE n + 1

\* The touch markers another agent process may have left before this one
\* registers anything.
PreMarked == { {}, { << "NORMAL", "c1", "t1" >> } }

\* No plugin registered, no call made.
ServerInit == plugin_registry = {} /\ rpc = None

\* No pod template built.
PodInit == pod_template = [pod_spec |-> None] /\ pod_raised = FALSE /\ pod_calls = 0

\* No notification sent.
SlackInit ==
    slack_log = << >> /\ slack_posted = << >> /\ slack_call = None /\ slack_calls = 0
RemoteInit == remote_call = None

\* The agent process before its first register call, given the touch markers
\* ms in the object store.
AgentInit(ms) ==
    /\ ctrl = << >>
    /\ registry = [t \in TaskNames |-> 0]
    /\ markers = ms
    /\ zip_coros = 0
    /\ stop_calls = [cl \in Clusters |-> 0]
    /\ down_calls = 0
    /\ remote_deletes = 0
    /\ last_alive = None
    /\ utc_time = 0
    /\ last_upload_time = None
    /\ loop_errors = {}
    /\ status_file = [t \in TaskNames |-> "missing"]
    /\ get_result = None

Init ==
    /\ \E ms \in PreMarked : AgentInit(ms)
    /\ ServerInit /\ PodInit /\ SlackInit /\ RemoteInit

\* register_sky_task without the task_exists check.
register_starts_always(ms, c) == TRUE

\* Whether register_sky_task starts the new controller.
register_starts(ms, c) == ~ task_exists(ms, unique_id(c))

\* SkyTaskTracker.register_sky_task (called by SkyPilotAgent.create).
register_sky_task(tt) ==
    /\ LET new_task == SkyTaskFuture(tt)
           i == Len(ctrl) + 1
       IN /\ zip_coros' = try_first_register(registry, zip_coros)
          /\ IF ~ register_starts(markers, new_task)
             THEN /\ ctrl' = Append(ctrl, new_task)
                  /\ UNCHANGED << registry, markers >>
             ELSE /\ markers' = touch_task(markers, unique_id(new_task))
                  /\ ctrl' = Append(ctrl, start(new_task))
                  /\ registry' = [registry EXCEPT ![new_task.task_name] = i]
    /\ UNCHANGED << stop_calls, down_calls, remote_deletes, last_alive,
                    utc_time, last_upload_time, loop_errors, status_file, get_result, ext_vars >>

\* ------------------------------------------------------ the launch worker

\* WrappedProcess.run in the worker process: the target returned and None was
\* sent, an Exception was caught and (e, tb) was sent, or the process ended
\* before either send (killed, or a BaseException such as SystemExit).
\* `raised` remembers that the target raised an Exception, which clean_up
\* does not keep.
WorkerExit(i, outcome) ==
    /\ i \in 1..Len(ctrl)
    /\ ctrl[i].proc = "running"
    /\ ctrl' = [ctrl EXCEPT ![i].proc = outcome,
                          ![i].raised = (outcome = "sent_exc")]
    /\ UNCHANGED << registry, markers, zip_coros, stop_calls, down_calls,
                    remote_deletes, last_alive, utc_time, last_upload_time, loop_errors,
                    status_file, get_result, ext_vars >>

\* BlockingProcessHandler.clean_up: terminate, join, close.
clean_up(c) == [c EXCEPT !.proc = "closed", !.n_clean = @ + 1]

\* WrappedProcess.exception: what the parent end of the pipe holds.
exception(c) == IF c.proc = "sent_exc" THEN << "Exception" >> ELSE None

\* status_poller ending after its loop without setting launch_done.
poller_finish_silent(c) ==
    [clean_up(c) EXCEPT !.coro["launch"] = IF exception(c) /= None THEN "exc" ELSE "ok"]

\* status_poller after its loop: launch_done unless the worker sent an
\* exception, clean_up, then raise the exception if any.
poller_finish(c) ==
    LET launch_exception == exception(c)
        c1 == IF launch_exception = None THEN [c EXCEPT !.ev.launch_done = TRUE] ELSE c
        c2 == clean_up(c1)
    IN [c2 EXCEPT !.coro["launch"] = IF launch_exception /= None THEN "exc" ELSE "ok"]

\* status_poller returning on a terminal signal without clean_up.
poller_terminal_leaky(c) == [c EXCEPT !.coro["launch"] = "ok"]

\* status_poller on waking from its sleep with a terminal signal set.
poller_terminal(c) == [clean_up(c) EXCEPT !.coro["launch"] = "ok"]

\* status_poller without the is_terminal check after the sleep.
status_poller_unaware(c) ==
    IF c.proc = "running"
    THEN [c EXCEPT !.coro["launch"] = "sleeping"]
    ELSE poller_finish(c)

\* One scheduling of BlockingProcessHandler.status_poller: from its creation
\* or from a sleep to its next sleep or to its end.
status_poller(c) ==
    IF c.coro["launch"] = "sleeping" /\ is_terminal(c.ev)
    THEN poller_terminal(c)
    ELSE IF c.proc = "running"
         THEN [c EXCEPT !.coro["launch"] = "sleeping"]
         ELSE poller_finish(c)

\* ----------------------------------------------------- the done-callback

\* Every done-callback registered with cancel_on_done=True.
cancel_on_done_all(k) == TRUE

\* start(): cancel_on_done of each task's done-callback.
cancel_on_done(k) == k /= "launch"

\* launch_failed_callback without the inner try/except around task.result():
\* the task's exception leaves the try block before the log and the signal.
callback_try_uncaught(outcome, k) ==
    [ put_error_log |-> FALSE,
      failed        |-> FALSE,
      finished      |-> outcome = "ok" /\ cancel_on_done(k),
      cancel        |-> outcome = "cancelled",
      raised        |-> outcome = "exc" ]

\* launch_failed_callback up to its finally: what the try block does for a
\* task that ended with `outcome`. The task's exception is re-raised by
\* task.result() inside the inner try and caught there.
callback_try(outcome, k) ==
    [ put_error_log |-> outcome = "exc",
      failed        |-> outcome = "exc",
      finished      |-> outcome = "ok" /\ cancel_on_done(k),
      cancel        |-> outcome = "cancelled",
      raised        |-> FALSE ]

\* The finally block without the check of _task_status.
first_terminal_unguarded(c, ev) == is_terminal(ev)

\* The guard of the finally block.
first_terminal(c, ev) == c.task_status = "INIT" /\ is_terminal(ev)

\* The scan of on_task_deleted without the cluster_name comparison.
running_tasks_any_cluster(reg, cs, deleted_task) ==
    { t \in TaskNames : reg[t] /= 0 /\ cs[reg[t]].task_status = "INIT" }

\* on_task_deleted: the controllers of the registry on the cluster of
\* deleted_task whose status is INIT.
running_tasks_on_cluster(reg, cs, deleted_task) ==
    { t \in TaskNames : /\ reg[t] /= 0
                        /\ cs[reg[t]].task_status = "INIT"
                        /\ cs[reg[t]].cluster_name = deleted_task.cluster_name }

\* on_task_deleted with no except clause that matches.
stop_raises_any(out) == out /= "ok"

\* on_task_deleted: which outcomes of sky.stop leave the try block as an
\* exception.
stop_raises(out) == out = "Error"

\* The teardown callback invoked before _task_status is assigned: the scan
\* still finds controller i INIT.
scan_view_before_done(cs, i) == [cs EXCEPT ![i].task_status = "INIT"]

\* The controllers as the scan of on_task_deleted reads them: the callback
\* has assigned DONE to controller i before it invokes the teardown.
scan_view(cs, i) == cs

\* on_task_deleted with `del cls._JOB_RESIGTRY[deleted_task.task_name]`.
registry_after_teardown_del(reg, deleted_task) ==
    [reg EXCEPT ![deleted_task.task_name] = 0]

\* on_task_deleted: the registry it leaves; the del statement is commented
\* out.
registry_after_teardown(reg, deleted_task) == reg

\* SkyTaskTracker.on_task_deleted(cs[i]), cs being the controllers after the
\* callback's own assignments; errs the exceptions escaped so far. sky_stop
\* keeps what the call of sky.stop did, "none" if it was not called.
on_task_deleted(cs, i, out, errs) ==
    LET stop == running_tasks_on_cluster(registry, scan_view(cs, i), cs[i]) = {}
        raised == stop /\ stop_raises(out)
    IN /\ stop_calls' = IF stop THEN [stop_calls EXCEPT ![cs[i].cluster_name] = @ + 1]
                                ELSE stop_calls
       /\ markers' = IF raised THEN markers ELSE delete_task(markers, unique_id(cs[i]))
       /\ loop_errors' = IF raised THEN errs \cup {<< i, "teardown" >>} ELSE errs
       /\ ctrl' = [cs EXCEPT ![i].sky_stop = IF stop THEN out ELSE "none"]
       /\ registry' = IF raised THEN registry
                                 ELSE registry_after_teardown(registry, cs[i])

\* SkyTaskFuture.launch_failed_callback for task k of controller i, which
\* ended with cs0[i].coro[k]; cs0 holds the controllers as the task left them.
\* The event loop runs the callback once the task has ended (call_soon):
\* nothing that runs in between reads the ended task, so it is run here in the
\* step that ends the task, and coro[k] keeps how the task ended.
launch_failed_callback(cs0, i, k) ==
    LET c == cs0[i]
        t == callback_try(c.coro[k], k)
        ev1 == [c.ev EXCEPT !.failed = @ \/ t.failed,
                            !.finished = @ \/ t.finished,
                            !.cancel = @ \/ t.cancel]
        fire == first_terminal(c, ev1)
        c1 == [c EXCEPT !.ev = ev1,
                        !.error_log = @ \/ t.put_error_log,
                        !.cb_after_terminal = @ \/ is_terminal(ev1),
                        !.task_status = IF fire THEN "DONE" ELSE @,
                        !.n_done = IF fire THEN @ + 1 ELSE @,
                        !.n_teardown = IF fire THEN @ + 1 ELSE @]
        cs == [cs0 EXCEPT ![i] = c1]
        errs == IF t.raised THEN loop_errors \cup {<< i, "task" >>} ELSE loop_errors
    IN /\ IF fire
          THEN \E out \in StopOutcomes : on_task_deleted(cs, i, out, errs)
          ELSE /\ ctrl' = cs
               /\ loop_errors' = errs
               /\ UNCHANGED << markers, stop_calls, registry >>
       /\ UNCHANGED << zip_coros, down_calls, remote_deletes,
                       last_alive, utc_time, last_upload_time, status_file, get_result, ext_vars >>

\* The event loop schedules the launch poller of controller i; its
\* done-callback follows if the poller ended.
PollerStep(i) ==
    /\ i \in 1..Len(ctrl)
    /\ ctrl[i].coro["launch"] \in {"created", "sleeping"}
    /\ LET c1 == status_poller(ctrl[i])
       IN IF c1.coro["launch"] = "sleeping"
          THEN /\ ctrl' = [ctrl EXCEPT ![i] = c1]
               /\ UNCHANGED << registry, markers, zip_coros, stop_calls, down_calls,
                               remote_deletes, last_alive, utc_time, last_upload_time,
                               loop_errors, status_file, get_result, ext_vars >>
          ELSE launch_failed_callback([ctrl EXCEPT ![i] = c1], i, "launch")

\* ------------------------------------- the deletion and upload coroutines

\* deletion_status / put_task_status observe a terminal signal after a sleep
\* and return.
CoroObserve(i, k) ==
    /\ i \in 1..Len(ctrl)
    /\ k \in {"deletion", "upload"}
    /\ ctrl[i].coro[k] = "running"
    /\ is_terminal(ctrl[i].ev)
    /\ launch_failed_callback([ctrl EXCEPT ![i].coro[k] = "ok"], i, k)

\* deletion_status / put_task_status return by themselves (the job ended) or
\* raise (a failed read or write).
CoroEnd(i, k, outcome) ==
    /\ i \in 1..Len(ctrl)
    /\ k \in {"deletion", "upload"}
    /\ outcome \in {"ok", "exc"}
    /\ ctrl[i].coro[k] = "running"
    /\ launch_failed_callback([ctrl EXCEPT ![i].coro[k] = outcome], i, k)

\* A task that has not ended is cancelled (asyncio cancels the tasks left at
\* the loop's shutdown): task.exception() then raises CancelledError.
CoroCancelled(i, k) ==
    /\ i \in 1..Len(ctrl)
    /\ ctrl[i].coro[k] \in {"created", "sleeping", "running"}
    /\ launch_failed_callback([ctrl EXCEPT ![i].coro[k] = "cancelled"], i, k)

\* ------------------------------------------------------- liveness, delete

Threshold == CONTROLLER_IDLE_MINUTES_TO_AUTOSTOP * 60

\* check_remote_agent_alive returning False when no heartbeat was written.
check_remote_agent_alive_none_dead(now, last) ==
    IF last = None THEN FALSE
    ELSE IF now - last[1] > CONTROLLER_IDLE_MINUTES_TO_AUTOSTOP * 60 THEN FALSE ELSE TRUE

\* check_remote_agent_alive comparing with >= instead of >.
check_remote_agent_alive_ge(now, last) ==
    IF last /= None /\ now - last[1] >= CONTROLLER_IDLE_MINUTES_TO_AUTOSTOP * 60
    THEN FALSE
    ELSE TRUE

\* check_remote_agent_alive: utc_time is now, last the stored heartbeat
\* timestamp (None when none was written).
check_remote_agent_alive(now, last) ==
    IF last /= None /\ now - last[1] > CONTROLLER_IDLE_MINUTES_TO_AUTOSTOP * 60
    THEN FALSE
    ELSE TRUE

\* remote_deletion running sky.down without the liveness check.
remote_down_always(alive) == TRUE

\* remote_deletion: whether sky.down is run before the deletion marker is
\* uploaded.
remote_down(alive) == ~ alive

\* The heartbeat states a remote deletion is tried against: (now, last).
HeartbeatCases ==
    { << Threshold + MaxOver, None >> } \cup
    { << age, << 0 >> >> : age \in {Threshold, Threshold + MaxOver} }

\* How the sky.down run in the pool worker ends; starmap re-raises the
\* worker's exception in remote_deletion.
DownOutcomes == {"ok", "NotSupportedError", "Error"}

\* remote_deletion(resource_meta); sky_down is how sky.down ends if it is run.
remote_deletion(now, last, sky_down) ==
    LET alive == check_remote_agent_alive(now, last)
        down == remote_down(alive)
        raised == down /\ sky_down /= "ok"
    IN /\ remote_deletes < MaxRemoteDeletes
       /\ (~ down) => sky_down = "ok"
       /\ remote_call' = [ alive |-> alive,
                           sky_down |-> IF down THEN sky_down ELSE "none",
                           raised |-> raised,
                           uploaded |-> ~ raised ]
       /\ utc_time' = now
       /\ last_upload_time' = last
       /\ last_alive' = << alive >>
       /\ down_calls' = IF remote_down(alive) THEN down_calls + 1 ELSE down_calls
       /\ remote_deletes' = remote_deletes + 1
       /\ UNCHANGED << ctrl, registry, markers, zip_coros, stop_calls, loop_errors,
                       status_file, get_result, server_vars, pod_vars, slack_vars >>

\* SkyPilotAgent.delete: whether the job is handled by this process.
owned(reg, job_name) == reg[job_name] /= 0

\* SkyPilotAgent.delete(resource_meta) with resource_meta.job_name = job_name.
delete(job_name) ==
    IF ~ owned(registry, job_name)
    THEN \E hb \in HeartbeatCases : \E sky_down \in DownOutcomes :
             remote_deletion(hb[1], hb[2], sky_down)
    ELSE /\ ctrl' = [ctrl EXCEPT ![registry[job_name]] = cancel(@)]
         /\ UNCHANGED << registry, markers, zip_coros, stop_calls, down_calls,
                         remote_deletes, last_alive, utc_time, last_upload_time,
                         loop_errors, status_file, get_result, ext_vars >>

\* --------------------------------------------------------------------- get

\* LAUNCH_TYPE_TO_SKY_STATUS: the provisioner's status vocabulary of each
\* launch type.
LAUNCH_TYPE_TO_SKY_STATUS ==
    [ NORMAL  |-> { "PENDING", "SETTING_UP", "RUNNING", "SUCCEEDED", "FAILED", "CANCELLED" },
      MANAGED |-> { "PENDING", "RECOVERING", "RUNNING", "SUCCEEDED", "FAILED", "CANCELLED" } ]

\* What Get may find at a job's status file path: no file, bytes that do not
\* parse, or a status name of either vocabulary.
StatusFiles ==
    { "missing", "unparsable" } \cup LAUNCH_TYPE_TO_SKY_STATUS.NORMAL
                               \cup LAUNCH_TYPE_TO_SKY_STATUS.MANAGED

\* The outcome of a call that raised.
Raised == "raised"

\* TaskRemotePathSetting.get_task_status().task_status: a read or parse error
\* is raised.
get_task_status(content) ==
    IF content \in { "missing", "unparsable" } THEN Raised ELSE content

\* query_job_status: the stored status looked up in the launch type's
\* vocabulary; a value the vocabulary does not have raises.
query_job_status(content, job_launch_type) ==
    LET task_status == get_task_status(content)
    IN IF task_status = Raised THEN Raised
       ELSE IF task_status \in LAUNCH_TYPE_TO_SKY_STATUS[job_launch_type]
            THEN task_status
            ELSE Raised

\* skypilot_status_to_flyte_phase
skypilot_status_to_flyte_phase(job_status) ==
    CASE job_status \in { "PENDING", "SETTING_UP" } -> "PENDING"
      [] job_status \in { "RUNNING", "RECOVERING" } -> "RUNNING"
      [] job_status = "SUCCEEDED" -> "SUCCEEDED"
      [] job_status = "CANCELLED" -> "ABORTED"
      [] OTHER -> "FAILED"

\* SkyPilotAgent.get(resource_meta): no exception of query_job_status is
\* caught, and the Resource is built with message=None.
get(job_name, job_launch_type) ==
    LET content == status_file[job_name]
        job_status == query_job_status(content, job_launch_type)
    IN /\ get_result' =
              [ job_name        |-> job_name,
                job_launch_type |-> job_launch_type,
                content         |-> content,
                raised          |-> job_status = Raised,
                phase           |-> IF job_status = Raised THEN "none"
                                    ELSE skypilot_status_to_flyte_phase(job_status),
                message         |-> None ]
       /\ UNCHANGED << ctrl, registry, markers, zip_coros, stop_calls, down_calls,
                       remote_deletes, last_alive, utc_time, last_upload_time,
                       loop_errors, status_file, ext_vars >>

\* The status file of a job is written (by the job's status uploader, in
\* this or another process), cut short, or removed.
StatusFileWrite(job_name, content) ==
    /\ status_file[job_name] /= content
    /\ status_file' = [status_file EXCEPT ![job_name] = content]
    /\ UNCHANGED << ctrl, registry, markers, zip_coros, stop_calls, down_calls,
                    remote_deletes, last_alive, utc_time, last_upload_time,
                    loop_errors, get_result, ext_vars >>

\* ------------------------------------------------ backend plugin server

\* The task types of the requests: "dummy" is DummyPlugin's, "fake" the one
\* the test asks for without a plugin.
TaskTypes == { "dummy", "sql", "fake" }

\* The job ids of the requests.
JobIds == { "dummy_id", "other_id" }

\* BackendPluginRegistry.get_plugin returning a registered plugin whatever
\* the task type asked for.
get_plugin_any(reg, task_type) ==
    IF reg = {} THEN None ELSE << CHOOSE p \in reg : TRUE >>

\* BackendPluginRegistry.get_plugin: the plugin registered under task_type,
\* None without one.
get_plugin(reg, task_type) ==
    IF task_type \in reg THEN << task_type >> ELSE None

\* The plugin's create: DummyPlugin returns TaskCreateResponse(job_id=dummy_id).
plugin_create(p) ==
    [ kind |-> "TaskCreateResponse",
      job_id |-> IF p = "dummy" THEN "dummy_id" ELSE "other_id" ]

\* The plugin's get: DummyPlugin returns TaskGetResponse(state=SUCCEEDED).
plugin_get(p, job_id) ==
    [ kind |-> "TaskGetResponse",
      state |-> IF p = "dummy" THEN "SUCCEEDED" ELSE "RUNNING" ]

\* The plugin's delete: TaskDeleteResponse().
plugin_delete(p, job_id) == [ kind |-> "TaskDeleteResponse" ]

\* The server raising when no plugin is registered for the task type.
no_plugin_raises == [ raised |-> TRUE, response |-> None ]

\* What a server method does when no plugin is registered for the task
\* type: it returns None.
no_plugin_result == [ raised |-> FALSE, response |-> None ]

\* A server method handing the request to the plugin and returning what the
\* plugin returned.
served(reg, task_type, response) ==
    IF get_plugin(reg, task_type) = None
    THEN no_plugin_result
    ELSE [ raised |-> FALSE, response |-> << response >> ]

\* BackendPluginRegistry.register(plugin)
RegisterPlugin(task_type) ==
    /\ task_type \notin plugin_registry
    /\ plugin_registry' = plugin_registry \cup { task_type }
    /\ UNCHANGED << rpc, agent_vars, pod_vars, slack_vars, remote_vars >>

\* One call of the server; `registered` keeps whether a plugin was
\* registered under the request's task type when the call was made.
server_call(method, task_type, job_id, result) ==
    /\ rpc' = [ method     |-> method,
                task_type  |-> task_type,
                job_id     |-> job_id,
                registered |-> task_type \in plugin_registry,
                raised     |-> result.raised,
                response   |-> result.response ]
    /\ UNCHANGED << plugin_registry, agent_vars, pod_vars, slack_vars, remote_vars >>

\* BackendPluginServer.CreateTask(ctx, request), request.template.type = task_type.
CreateTask(task_type) ==
    LET plugin == get_plugin(plugin_registry, task_type)
    IN server_call("CreateTask", task_type, "none",
                   served(plugin_registry, task_type,
                          IF plugin = None THEN None ELSE plugin_create(plugin[1])))

\* BackendPluginServer.GetTask(ctx, TaskGetRequest(task_type, job_id))
GetTask(task_type, job_id) ==
    LET plugin == get_plugin(plugin_registry, task_type)
    IN server_call("GetTask", task_type, job_id,
                   served(plugin_registry, task_type,
                          IF plugin = None THEN None ELSE plugin_get(plugin[1], job_id)))

\* BackendPluginServer.DeleteTask(ctx, TaskDeleteRequest(task_type, job_id))
DeleteTask(task_type, job_id) ==
    LET plugin == get_plugin(plugin_registry, task_type)
    IN server_call("DeleteTask", task_type, job_id,
                   served(plugin_registry, task_type,
                          IF plugin = None THEN None ELSE plugin_delete(plugin[1], job_id)))

\* ------------------------------------------ shared memory in pod templates

\* V1Volume(name="shm", empty_dir=V1EmptyDirVolumeSource(medium="Memory"))
shm_volume == [ name |-> "shm", medium |-> "Memory" ]

\* V1VolumeMount(name="shm", mount_path="/dev/shm")
shm_volume_mount == [ name |-> "shm", mount_path |-> "/dev/shm" ]

\* V1PodSpec(): no containers list and no volumes list.
V1PodSpec == [ containers |-> None, volumes |-> None ]

\* V1Container(name=name): no volume_mounts list.
V1Container(name) == [ name |-> name, volume_mounts |-> None ]

\* An optional list is None or << the list >>, so that None and [] differ.
Some(x) == << x >>
OrEmpty(opt) == IF opt = None THEN << >> ELSE opt[1]

\* A volume and a mount the caller configured before the call.
data_volume == [ name |-> "data", medium |-> "" ]
data_volume_mount == [ name |-> "data", mount_path |-> "/data" ]

\* The containers a caller's pod template may hold: named by position, each
\* with no volume_mounts list, an empty one, or one mount.
InputContainers(n) ==
    { [ k \in 1..n |-> [ name |-> IF k = 1 THEN "primary" ELSE "sidecar",
                         volume_mounts |-> m[k] ] ] :
        m \in [ 1..n -> { None, Some(<< >>), Some(<< data_volume_mount >>) } ] }

\* The pod templates the function is called on.
PodTemplates ==
    { [ pod_spec |-> None ] } \cup
    { [ pod_spec |-> Some([ containers |-> cs, volumes |-> vs ]) ] :
        cs \in { None } \cup { Some(c) : c \in UNION { InputContainers(n) : n \in 0..MaxContainers } },
        vs \in { None, Some(<< >>), Some(<< data_volume >>) } }

\* The volumes list with the container count checked before the append: no
\* volume is added when the call raises.
shm_volumes_after_check(volumes, raised) ==
    IF raised THEN volumes ELSE Append(volumes, shm_volume)

\* pod_spec.volumes after `pod_template.pod_spec.volumes.append(shm_volume)`,
\* which runs before the container count is looked at.
shm_volumes(volumes, raised) == Append(volumes, shm_volume)

\* add_shared_mem_volume_to_pod_template(pod_template): the template as the
\* call leaves it, and whether it raised ValueError.
add_shared_mem_volume_to_pod_template(pt) ==
    LET pod_spec == IF pt.pod_spec = None THEN V1PodSpec ELSE pt.pod_spec[1]
        containers == OrEmpty(pod_spec.containers)
        num_containers == Len(containers)
        raised == num_containers > 1
        volumes == shm_volumes(OrEmpty(pod_spec.volumes), raised)
        with_primary == IF num_containers = 0
                        THEN Append(containers, V1Container("primary"))
                        ELSE containers
        mounted == [ with_primary EXCEPT
                       ![1].volume_mounts =
                           Some(Append(OrEmpty(with_primary[1].volume_mounts),
                                       shm_volume_mount)) ]
    IN [ pod_template |->
           [ pod_spec |-> Some([ containers |-> Some(IF raised THEN containers ELSE mounted),
                                 volumes |-> Some(volumes) ]) ],
         raised |-> raised ]

\* One call of add_shared_mem_volume_to_pod_template on the template.
AddSharedMem ==
    LET r == add_shared_mem_volume_to_pod_template(pod_template)
    IN /\ pod_calls < MaxPodCalls
       /\ pod_template' = r.pod_template
       /\ pod_raised' = r.raised
       /\ pod_calls' = pod_calls + 1
       /\ UNCHANGED << agent_vars, server_vars, slack_vars, remote_vars >>

\* ----------------------------------------------------------- SlackNotifier

\* The messages sent.
Messages == { "m1", "m2" }

\* Where a send_notification call fails: nowhere, in get_notification_secret,
\* in WebClient(token=token), or in chat_postMessage.
FailPoints == { "none", "secret", "client", "post" }

\* What a failing step raises: an Exception, or a BaseException that is not
\* one (KeyboardInterrupt, SystemExit).
RaisedKinds == { "Exception", "BaseException" }

\* send_notification without its try/except.
except_catches_nothing(kind) == FALSE

\* `except Exception as e`: what the handler of send_notification catches.
except_catches(kind) == kind = "Exception"

\* SlackNotifier.send_notification(message), failing at fail with kind.
send_notification(message, fail, kind) ==
    LET posted == fail = "none"
        caught == fail /= "none" /\ except_catches(kind)
    IN /\ slack_calls < MaxNotifications
       /\ fail = "none" => kind = "Exception"
       /\ slack_posted' = IF posted THEN Append(slack_posted, message) ELSE slack_posted
       /\ slack_log' = IF posted THEN Append(slack_log, "info")
                       ELSE IF caught THEN Append(slack_log, "error")
                       ELSE slack_log
       /\ slack_call' = [ message |-> message, fail |-> fail, kind |-> kind,
                          raised |-> fail /= "none" /\ ~ caught ]
       /\ slack_calls' = slack_calls + 1
       /\ UNCHANGED << agent_vars, server_vars, pod_vars, remote_vars >>

\* ---------------------------------------------------------- specifications

\* SkyPilotAgent.create, at most n times in a run.
Create(n) == \E tt \in TaskTemplates : Len(ctrl) < n /\ register_sky_task(tt)

\* The life of a controller under every outcome of its worker and of its
\* coroutines, with Delete for owned and for foreign jobs.
Next ==
    \/ Create(MaxSolo)
    \/ \E i \in 1..MaxSolo : \E o \in WorkerOutcomes : WorkerExit(i, o)
    \/ \E i \in 1..MaxSolo : PollerStep(i)
    \/ \E i \in 1..MaxSolo : \E k \in Coroutines : CoroObserve(i, k)
    \/ \E i \in 1..MaxSolo : \E k \in Coroutines : \E o \in {"ok", "exc"} : CoroEnd(i, k, o)
    \/ \E i \in 1..MaxSolo : \E k \in Coroutines : CoroCancelled(i, k)
    \/ \E t \in TaskNames : delete(t)

Spec == Init /\ [][Next]_vars

\* Several jobs in one process: the registry, the touch markers and the
\* cluster teardown. The launch workers are still running, no task is
\* cancelled by the loop, and Delete is called for the jobs this process owns.
NextRegistry ==
    \/ Create(MaxCtl)
    \/ \E i \in 1..MaxCtl : PollerStep(i)
    \/ \E i \in 1..MaxCtl : \E k \in Coroutines : CoroObserve(i, k)
    \/ \E i \in 1..MaxCtl : \E k \in Coroutines : \E o \in {"ok", "exc"} : CoroEnd(i, k, o)
    \/ \E t \in TaskNames : owned(registry, t) /\ delete(t)

RegistrySpec == Init /\ [][NextRegistry]_vars

\* The event loop is fair to every task that can run: a sleeping poller or
\* coroutine is woken, and a task that ended has its done-callback run.
Fairness ==
    /\ \A i \in 1..MaxSolo : WF_vars(PollerStep(i))
    /\ \A i \in 1..MaxSolo : \A k \in {"deletion", "upload"} : WF_vars(CoroObserve(i, k))

FairSpec == Init /\ [][Next]_vars /\ Fairness

\* remote_deletion against every heartbeat age up to Threshold + MaxOver
\* seconds, with the clock up to MaxSkew seconds behind the heartbeat.
NextLiveness ==
    \E now \in 0..(Threshold + MaxOver) :
        \E last \in {None} \cup { << t >> : t \in 0..MaxSkew } :
            \E sky_down \in DownOutcomes : remote_deletion(now, last, sky_down)

LivenessSpec == Init /\ [][NextLiveness]_vars

\* Get against every content of the jobs' status files.
NextGet ==
    \/ \E t \in TaskNames : \E content \in StatusFiles : StatusFileWrite(t, content)
    \/ \E tt \in TaskTemplates : get(tt.task_name, tt.job_launch_type)

GetSpec == Init /\ [][NextGet]_vars

\* Everything at rest: the start of the specifications of the other
\* components.
InitIdle == AgentInit({}) /\ ServerInit /\ PodInit /\ SlackInit /\ RemoteInit

\* The backend plugin server under every order of registrations and calls.
NextServer ==
    \/ \E tt \in TaskTypes : RegisterPlugin(tt)
    \/ \E tt \in TaskTypes : CreateTask(tt)
    \/ \E tt \in TaskTypes : \E j \in JobIds : GetTask(tt, j)
    \/ \E tt \in TaskTypes : \E j \in JobIds : DeleteTask(tt, j)

ServerSpec == InitIdle /\ [][NextServer]_vars

\* add_shared_mem_volume_to_pod_template on every pod template of PodTemplates.
InitPod ==
    /\ AgentInit({}) /\ ServerInit /\ SlackInit /\ RemoteInit
    /\ pod_template \in PodTemplates /\ pod_raised = FALSE /\ pod_calls = 0

NextPod == AddSharedMem

PodSpec == InitPod /\ [][NextPod]_vars

\* send_notification with every message and every failure.
NextSlack ==
    \E message \in Messages : \E fail \in FailPoints : \E kind \in RaisedKinds :
        send_notification(message, fail, kind)

SlackSpec == InitIdle /\ [][NextSlack]_vars

\* ------------------------------------------------------------------ claims

Started(i) == i \in 1..Len(ctrl) /\ ctrl[i].started

\* C1: for every controller and every interleaving of its three coroutines'
\* ends (normal, exception, cancellation) with cancel() calls, the status is
\* set to DONE at most once and the teardown callback is invoked at most
\* once, and exactly once as soon as a done-callback has run with a terminal
\* signal (failed, cancel or finished) set.
C1_TeardownOnce ==
    \A i \in 1..Len(ctrl) :
        /\ ctrl[i].n_done <= 1
        /\ ctrl[i].n_teardown <= 1
        /\ ctrl[i].n_teardown = ctrl[i].n_done
        /\ ctrl[i].cb_after_terminal =>
               ctrl[i].n_done = 1 /\ ctrl[i].n_teardown = 1 /\ ctrl[i].task_status = "DONE"
        /\ ctrl[i].task_status = "DONE" => ctrl[i].n_done = 1

\* Both failed and cancel are set, every task has ended and had its
\* callback run, and the teardown ran once.
C1_Witness ==
    \E i \in 1..Len(ctrl) :
        /\ ctrl[i].ev.failed /\ ctrl[i].ev.cancel
        /\ \A k \in Coroutines : ctrl[i].coro[k] \in {"ok", "exc", "cancelled"}
        /\ ctrl[i].n_teardown = 1

\* The controllers of identity id whose launch worker has been started.
Launched(id) == { i \in 1..Len(ctrl) : unique_id(ctrl[i]) = id /\ ctrl[i].n_proc >= 1 }

\* The started controllers of identity id that had no teardown yet.
Live(cs, id) == { i \in 1..Len(cs) : unique_id(cs[i]) = id /\ cs[i].started
                                      /\ cs[i].n_teardown = 0 }

\* C2 as stated: over every sequence of creates, completions, failures,
\* cancels and Deletes, the launch worker of one identity is started at most
\* once.
C2_LaunchAtMostOnce == \A id \in UniqueIds : Cardinality(Launched(id)) <= 1

\* C2 as amended: a register call that finds the identity's touch marker
\* returns a controller it has not started (no worker, no task), a call that
\* finds none touches the marker and starts exactly one worker, and at any
\* time at most one started controller per identity has not been torn down:
\* a second launch happens only after a teardown deleted the marker.
C2_NoRelaunchWhileMarked ==
    [][ /\ Len(ctrl') = Len(ctrl) + 1 =>
            LET c == ctrl'[Len(ctrl')]
            IN /\ unique_id(c) \in markers =>
                     /\ ~ c.started /\ c.n_proc = 0 /\ c.proc = "none"
                     /\ markers' = markers /\ registry' = registry
               /\ unique_id(c) \notin markers =>
                     /\ c.started /\ c.n_proc = 1
                     /\ unique_id(c) \in markers'
                     /\ Live(ctrl, unique_id(c)) = {}
        /\ \A id \in UniqueIds : Cardinality(Live(ctrl', id)) <= 1
      ]_vars

\* A second register of an identity found its marker and started nothing,
\* while the first controller of that identity is started and not torn down.
C2_Witness ==
    \E i, j \in 1..Len(ctrl) :
        /\ i < j
        /\ unique_id(ctrl[i]) = unique_id(ctrl[j])
        /\ ctrl[i].started /\ ctrl[i].n_teardown = 0
        /\ ~ ctrl[j].started

\* The liveness check has run: last_alive holds its result for the heartbeat
\* last_upload_time read at utc_time.
Checked == last_alive /= None

\* C3 as stated: the liveness check returns false when no heartbeat was ever
\* written (last_upload_time() is None).
C3_NoHeartbeatDead == (Checked /\ last_upload_time = None) => last_alive = << FALSE >>

\* C3 as amended: the liveness check returns true when no heartbeat was ever
\* written, whatever the time is.
C3_NoHeartbeatAlive == (Checked /\ last_upload_time = None) => last_alive = << TRUE >>

\* The check ran with no heartbeat, long after the threshold.
C3_Witness == Checked /\ last_upload_time = None /\ utc_time > 600

\* C4: with a heartbeat timestamp, the liveness check returns false if and
\* only if now minus the heartbeat is strictly greater than 600 seconds
\* (10 minutes * 60), and true otherwise: true at an age of exactly 600 s
\* and of 100 s, false at 601 s and at 700 s.
C4_StaleIffOlderThanThreshold ==
    (Checked /\ last_upload_time /= None) =>
        LET age == utc_time - last_upload_time[1]
        IN /\ (last_alive = << FALSE >>) <=> (age > 600)
           /\ (last_alive = << TRUE >>) <=> (age <= 600)
           /\ age = 700 => last_alive = << FALSE >>
           /\ age = 601 => last_alive = << FALSE >>
           /\ age = 600 => last_alive = << TRUE >>
           /\ age = 100 => last_alive = << TRUE >>

\* The check ran on a heartbeat exactly 600 seconds old and answered true.
C4_Witness ==
    /\ Checked /\ last_upload_time /= None
    /\ utc_time - last_upload_time[1] = 600
    /\ last_alive = << TRUE >>

\* Controller i is torn down in this step (its teardown callback is invoked).
TornDown(i) == i \in 1..Len(ctrl) /\ ctrl'[i].n_teardown = ctrl[i].n_teardown + 1

\* Some controller of the registry other than i is on the cluster cl with
\* status INIT once the step is over.
OtherInitOnCluster(i, cl) ==
    \E t \in TaskNames :
        /\ registry[t] /= 0 /\ registry[t] /= i
        /\ ctrl'[registry[t]].cluster_name = cl
        /\ ctrl'[registry[t]].task_status = "INIT"

\* C5: the teardown of a job calls sky.stop for its cluster if and only if no
\* controller in the registry has the same cluster_name and status INIT: with
\* J1 and J2 registered on one cluster, the teardown of J1 calls no sky.stop
\* while J2 is INIT and the later teardown of J2 calls it; no other step and
\* no other cluster's count changes.
C5_StopIffLastOnCluster ==
    [][ /\ \A i \in 1..Len(ctrl) : TornDown(i) =>
              LET cl == ctrl[i].cluster_name
              IN /\ ctrl'[i].task_status = "DONE"
                 /\ IF OtherInitOnCluster(i, cl)
                    THEN stop_calls' = stop_calls
                    ELSE stop_calls' = [stop_calls EXCEPT ![cl] = @ + 1]
        /\ (\A i \in 1..Len(ctrl) : ~ TornDown(i)) => stop_calls' = stop_calls
      ]_vars

\* Two jobs of the registry on one cluster are both DONE and torn down and
\* sky.stop was called once for the cluster: by the second teardown only.
C5_Witness ==
    \E i, j \in 1..Len(ctrl) :
        /\ i /= j
        /\ registry[ctrl[i].task_name] = i /\ registry[ctrl[j].task_name] = j
        /\ ctrl[i].cluster_name = ctrl[j].cluster_name
        /\ ctrl[i].n_teardown = 1 /\ ctrl[j].n_teardown = 1
        /\ stop_calls[ctrl[i].cluster_name] = 1

\* Controller i is the only started job on its cluster.
OnlyJobOnCluster(i) ==
    \A j \in 1..Len(ctrl) :
        (j /= i /\ ctrl[j].started) => ctrl[j].cluster_name /= ctrl[i].cluster_name

AllEnded(i) == \A k \in Coroutines : ctrl[i].coro[k] \in {"ok", "exc", "cancelled"}

\* C7: after cancel() on a started controller whose status is INIT, under a
\* fair event loop every task still running observes the signal and ends, the
\* controller reaches DONE and its teardown callback is invoked (once).
C7_CancelLeadsToDone ==
    \A i \in 1..MaxSolo :
        (Started(i) /\ ctrl[i].ev.cancel /\ ctrl[i].task_status = "INIT")
            ~> (Started(i) /\ AllEnded(i) /\ ctrl[i].task_status = "DONE"
                /\ ctrl[i].n_teardown = 1)

\* cancel() has been called on a started controller that is still INIT, with
\* its worker and its three tasks running.
C7_Witness ==
    \E i \in 1..Len(ctrl) :
        /\ ctrl[i].started /\ ctrl[i].ev.cancel /\ ctrl[i].task_status = "INIT"
        /\ ctrl[i].proc = "running"
        /\ ctrl[i].coro = [k \in Coroutines |-> IF k = "launch" THEN "sleeping" ELSE "running"]

\* The step constructs a controller and starts it.
StartsNew == Len(ctrl') = Len(ctrl) + 1 /\ ctrl'[Len(ctrl')].started

\* C8 as stated: after start() returns, the controller's status is LAUNCHING.
C8_StartSetsLaunching ==
    [][ StartsNew => ctrl'[Len(ctrl')].task_status = "LAUNCHING" ]_vars

\* C8 as amended: after start() returns, the controller's status is still
\* INIT and the worker process and the three tasks (launch poller,
\* deletion-status poller, status uploader) have been created; the status is
\* never LAUNCHING or RUNNING: its only change is from INIT to DONE.
C8_StartKeepsInit ==
    [][ /\ StartsNew =>
            LET c == ctrl'[Len(ctrl')]
            IN /\ c.task_status = "INIT"
               /\ c.proc = "running"
               /\ c.coro = [k \in Coroutines |-> IF k = "launch" THEN "created" ELSE "running"]
        /\ \A i \in 1..Len(ctrl) :
              /\ ctrl'[i].task_status \in {"INIT", "DONE"}
              /\ ctrl'[i].task_status /= ctrl[i].task_status =>
                    ctrl[i].task_status = "INIT" /\ ctrl'[i].task_status = "DONE"
      ]_vars

\* The launch succeeded (launch_done) on a started controller, which is still
\* INIT.
C8_Witness ==
    \E i \in 1..Len(ctrl) :
        /\ ctrl[i].started /\ ctrl[i].ev.launch_done
        /\ ctrl[i].task_status = "INIT"

\* The step is a remote_deletion: it uploads a deletion marker.
RemoteDeleteStep == remote_deletes' = remote_deletes + 1

\* The step sets the cancel signal of controller i and ends none of its tasks:
\* cancel() called by delete.
CancelStep(i) ==
    /\ i \in 1..Len(ctrl)
    /\ ~ ctrl[i].ev.cancel /\ ctrl'[i].ev.cancel
    /\ ctrl'[i].coro = ctrl[i].coro

EndsWithException(i, k) ==
    /\ i \in 1..Len(ctrl)
    /\ ctrl[i].coro[k] /= "exc" /\ ctrl'[i].coro[k] = "exc"

\* C10: when a supervised task of a controller ends with an unhandled
\* exception, its done-callback writes the error record (put_error_log), sets
\* the failed signal and, if the status is still INIT, sets it to DONE and
\* invokes the teardown callback (once); the task's exception does not leave
\* the callback.
C10_ExceptionSetsFailed ==
    [][ \A i \in 1..Len(ctrl) : \A k \in Coroutines : EndsWithException(i, k) =>
          /\ ctrl'[i].error_log
          /\ ctrl'[i].ev.failed
          /\ ctrl'[i].task_status = "DONE"
          /\ ctrl[i].task_status = "INIT" =>
                /\ ctrl'[i].n_done = ctrl[i].n_done + 1
                /\ ctrl'[i].n_teardown = ctrl[i].n_teardown + 1
          /\ ctrl[i].task_status = "DONE" =>
                /\ ctrl'[i].n_teardown = ctrl[i].n_teardown
                /\ stop_calls' = stop_calls
          /\ << i, "task" >> \notin loop_errors'
      ]_vars

\* The launch poller raised the worker's exception while the controller was
\* the first to end: failed is the only terminal signal, the error record is
\* written, the status is DONE and the teardown ran.
C10_Witness ==
    \E i \in 1..Len(ctrl) :
        /\ ctrl[i].coro["launch"] = "exc"
        /\ ctrl[i].ev.failed /\ ~ ctrl[i].ev.cancel /\ ~ ctrl[i].ev.finished
        /\ ctrl[i].error_log
        /\ ctrl[i].task_status = "DONE" /\ ctrl[i].n_teardown = 1

\* C11 as stated: in every interleaving of the worker's exit with cancel and
\* the other terminal signals, a worker that raised makes the launch poller
\* raise and the failed signal be set once the poller has run to its end: the
\* worker's exception is never dropped.
C11_ExceptionNeverDropped ==
    \A i \in 1..Len(ctrl) :
        (ctrl[i].raised /\ ctrl[i].coro["launch"] \in {"ok", "exc"}) =>
            ctrl[i].coro["launch"] = "exc" /\ ctrl[i].ev.failed /\ ctrl[i].error_log

\* Get ran into an internal failure: the status file was missing or did not
\* parse, or held a value the launch type's vocabulary does not have.
InternalFailure(r) ==
    \/ r.content \in { "missing", "unparsable" }
    \/ r.content \notin LAUNCH_TYPE_TO_SKY_STATUS[r.job_launch_type]

\* C12 as stated: Get never raises on an internal failure (status file
\* missing or unparsable, unknown status value): it returns a Resource with
\* phase FAILED and a non-empty message.
C12_GetNeverRaises ==
    (get_result /= None /\ InternalFailure(get_result)) =>
        /\ ~ get_result.raised
        /\ get_result.phase = "FAILED"
        /\ get_result.message /= None

Active(id) == { i \in 1..Len(ctrl) : /\ unique_id(ctrl[i]) = id
                                      /\ ctrl[i].started
                                      /\ ctrl[i].task_status = "INIT" }

\* A controller as its constructor leaves it: no worker, no task, no signal.
Inert(c) == /\ ~ c.started /\ c.proc = "none" /\ c.n_proc = 0
            /\ c.coro = [k \in Coroutines |-> "none"]
            /\ c.task_status = "INIT" /\ ~ is_terminal(c.ev)
            /\ c.n_done = 0 /\ c.n_teardown = 0

\* C14 as stated: at every point of every sequence of register calls, at most
\* one controller object exists per job identity {cluster_name, task_name,
\* job_launch_type}.
C14_OneControllerPerIdentity ==
    \A i, j \in 1..Len(ctrl) : i /= j => unique_id(ctrl[i]) /= unique_id(ctrl[j])

\* C14 as amended: every register call constructs a controller object; at
\* every point at most one controller per identity is started with status
\* INIT, every entry of the registry is a started controller filed under its
\* own task name, and a controller that was constructed for an identity
\* already marked is never started, never stored in the registry and stays
\* as its constructor left it.
C14_OneActiveControllerPerIdentity ==
    /\ \A id \in UniqueIds : Cardinality(Active(id)) <= 1
    /\ \A t \in TaskNames : registry[t] /= 0 =>
           /\ registry[t] \in 1..Len(ctrl)
           /\ ctrl[registry[t]].started
           /\ ctrl[registry[t]].task_name = t
    /\ \A i \in 1..Len(ctrl) : ~ ctrl[i].started =>
           /\ Inert(ctrl[i])
           /\ registry[ctrl[i].task_name] /= i

\* Two started controllers of one identity: the first is DONE and torn down,
\* the second, registered after the teardown, is INIT and holds the
\* registry's entry.
C14_Witness ==
    \E i, j \in 1..Len(ctrl) :
        /\ i < j
        /\ unique_id(ctrl[i]) = unique_id(ctrl[j])
        /\ ctrl[i].started /\ ctrl[i].task_status = "DONE"
        /\ ctrl[j].started /\ ctrl[j].task_status = "INIT"
        /\ registry[ctrl[j].task_name] = j

\* C15 as stated: the shared zip/sync background task is created at most once
\* per process over every sequence of register calls, those whose first
\* register call finds the job already marked and adds nothing to the
\* registry included.
C15_ZipAtMostOnce == zip_coros <= 1

\* Task k of controller i returns normally in this step.
Returns(i, k) == ctrl[i].coro[k] /= "ok" /\ ctrl'[i].coro[k] = "ok"

\* The finished signal of controller i is set in this step.
SetsFinished(i) == ~ ctrl[i].ev.finished /\ ctrl'[i].ev.finished

\* C16 as stated: the finished signal is set only when all supervised
\* coroutines of the controller have completed normally and no terminal
\* signal was set before; the normal return of one coroutine while the others
\* are still running does not set it.
C16_FinishedOnlyWhenAllDone ==
    [][ \A i \in 1..Len(ctrl) : SetsFinished(i) =>
          /\ \A k \in Coroutines : ctrl'[i].coro[k] = "ok"
          /\ ~ is_terminal(ctrl[i].ev)
      ]_vars

\* C16 as amended: the finished signal is set by the done-callback of the
\* deletion-status task or of the status-upload task whenever that task
\* returns normally, whatever the other tasks are doing and whether or not a
\* terminal signal is already set, and by nothing else: the normal return of
\* the launch poller, an exception and a cancellation leave it as it is.
C16_FinishedOnFirstNormalReturn ==
    [][ \A i \in 1..Len(ctrl) :
          /\ \A k \in { "deletion", "upload" } : Returns(i, k) => ctrl'[i].ev.finished
          /\ SetsFinished(i) => \E k \in { "deletion", "upload" } : Returns(i, k)
          /\ (Returns(i, "launch") /\ ~ ctrl[i].ev.finished) => ~ ctrl'[i].ev.finished
      ]_vars

\* The deletion-status task returned by itself and finished is set, while the
\* status-upload task and the launch poller are still running and the worker
\* has not exited; no other terminal signal is set.
C16_Witness ==
    \E i \in 1..Len(ctrl) :
        /\ ctrl[i].ev.finished /\ ~ ctrl[i].ev.cancel /\ ~ ctrl[i].ev.failed
        /\ ctrl[i].coro["deletion"] = "ok"
        /\ ctrl[i].coro["upload"] = "running"
        /\ ctrl[i].coro["launch"] = "sleeping"
        /\ ctrl[i].proc = "running"

\* The launch worker of controller i completed successfully and its poller
\* runs to its end in this step.
LaunchSucceeded(i) == ctrl[i].proc = "sent_none" /\ Returns(i, "launch")

\* C17 as stated: the successful completion of the launch worker sets the
\* launch_done signal, in every case; and when no terminal signal is set it
\* leaves the status unchanged, sets none of failed, cancel and finished and
\* does not invoke the teardown callback.
C17_LaunchSuccessSetsLaunchDone ==
    [][ \A i \in 1..Len(ctrl) : LaunchSucceeded(i) =>
          /\ ctrl'[i].ev.launch_done
          /\ ~ is_terminal(ctrl[i].ev) =>
                /\ ctrl'[i].task_status = ctrl[i].task_status
                /\ ~ is_terminal(ctrl'[i].ev)
                /\ ctrl'[i].n_teardown = ctrl[i].n_teardown
      ]_vars

\* C17 as amended: when the launch poller finds the worker exited
\* successfully it sets launch_done, unless it wakes from its sleep with a
\* terminal signal set, in which case it returns without setting it. When no
\* terminal signal is set, the successful completion sets launch_done and
\* nothing else: the status stays as it is (INIT, not DONE), failed, cancel
\* and finished stay unset, and neither the teardown callback nor sky.stop
\* is invoked.
C17_LaunchSuccessFrame ==
    [][ \A i \in 1..Len(ctrl) : LaunchSucceeded(i) =>
          /\ ctrl'[i].ev.launch_done <=>
                ~ (ctrl[i].coro["launch"] = "sleeping" /\ is_terminal(ctrl[i].ev))
          /\ ~ is_terminal(ctrl[i].ev) =>
                /\ ctrl'[i].ev = [ctrl[i].ev EXCEPT !.launch_done = TRUE]
                /\ ctrl'[i].task_status = ctrl[i].task_status
                /\ ctrl'[i].task_status = "INIT"
                /\ ctrl'[i].n_done = ctrl[i].n_done
                /\ ctrl'[i].n_teardown = ctrl[i].n_teardown
                /\ ctrl'[i].n_teardown = 0
                /\ UNCHANGED << stop_calls, markers, registry, loop_errors >>
      ]_vars

\* The worker succeeded and its poller has returned: launch_done is set, no
\* terminal signal is, the status is INIT, no teardown ran, and the other two
\* tasks go on.
C17_Witness ==
    \E i \in 1..Len(ctrl) :
        /\ ctrl[i].ev.launch_done /\ ~ is_terminal(ctrl[i].ev)
        /\ ctrl[i].coro["launch"] = "ok"
        /\ ctrl[i].coro["deletion"] = "running" /\ ctrl[i].coro["upload"] = "running"
        /\ ctrl[i].task_status = "INIT" /\ ctrl[i].n_teardown = 0
        /\ ~ ctrl[i].raised

\* C18 as stated: no failure of the deprovisioning call escapes
\* on_task_deleted: whatever sky.stop raises, the teardown of a job lets no
\* exception out and the job's registration marker is deleted when it is over.
C18_NoStopFailureEscapes ==
    [][ \A i \in 1..Len(ctrl) : TornDown(i) =>
          /\ << i, "teardown" >> \notin loop_errors'
          /\ unique_id(ctrl[i]) \notin markers'
      ]_vars

\* C19: when the deprovisioning call (sky.stop) in on_task_deleted raises the
\* provider's NotSupportedError, the error is caught (nothing leaves the
\* teardown) and delete_task is still called for the terminated job's unique
\* id: its marker is gone when the teardown is over.
C19_NotSupportedCaught ==
    [][ \A i \in 1..Len(ctrl) :
          (TornDown(i) /\ ctrl'[i].sky_stop = "NotSupportedError") =>
              /\ << i, "teardown" >> \notin loop_errors'
              /\ loop_errors' = loop_errors
              /\ unique_id(ctrl[i]) \in markers
              /\ markers' = delete_task(markers, unique_id(ctrl[i]))
              /\ unique_id(ctrl[i]) \notin markers'
              /\ ctrl'[i].task_status = "DONE"
      ]_vars

\* The teardown of a job called sky.stop, which raised NotSupportedError:
\* the job is DONE, nothing escaped and its marker is deleted.
C19_Witness ==
    \E i \in 1..Len(ctrl) :
        /\ ctrl[i].sky_stop = "NotSupportedError"
        /\ ctrl[i].task_status = "DONE" /\ ctrl[i].n_teardown = 1
        /\ stop_calls[ctrl[i].cluster_name] = 1
        /\ loop_errors = {}
        /\ unique_id(ctrl[i]) \notin markers

\* The step is a Delete of the job named t, which this process owns.
DeleteStep(t) == registry[t] /= 0 /\ CancelStep(registry[t])

\* C20 as stated: a controller stays in the registry when its job reaches
\* DONE, and its entry is taken out only by an explicit delete by the owner:
\* a step after which the registry no longer holds a DONE controller under
\* its name is a Delete of that job.
C20_EntryLeavesOnlyByDelete ==
    [][ \A t \in TaskNames :
          (registry[t] /= 0 /\ ctrl[registry[t]].task_status = "DONE"
             /\ registry'[t] /= registry[t]) => DeleteStep(t)
      ]_vars

\* C20 as amended: an entry of the registry is never removed, neither when
\* its job reaches DONE (completion, failure, cancellation) nor by Delete,
\* which only sets the cancel signal, so Delete after the job finished still
\* finds a controller; an entry changes only when a register call stores the
\* controller it has just started under the same task name.
C20_EntryNeverRemoved ==
    [][ /\ \A t \in TaskNames : registry[t] /= 0 =>
              /\ registry'[t] /= 0
              /\ owned(registry', t)
              /\ registry'[t] /= registry[t] =>
                    /\ Len(ctrl') = Len(ctrl) + 1
                    /\ registry'[t] = Len(ctrl')
                    /\ ctrl'[Len(ctrl')].task_name = t
                    /\ ctrl'[Len(ctrl')].started
        /\ \A i \in 1..Len(ctrl) :
              (TornDown(i) \/ CancelStep(i)) => registry' = registry
      ]_vars

\* A job failed, reached DONE and was torn down, and a Delete afterwards
\* found its controller in the registry and set its cancel signal.
C20_Witness ==
    \E i \in 1..Len(ctrl) :
        /\ registry[ctrl[i].task_name] = i
        /\ ctrl[i].task_status = "DONE" /\ ctrl[i].n_teardown = 1
        /\ ctrl[i].ev.failed /\ ctrl[i].ev.cancel
        /\ \A k \in Coroutines : ctrl[i].coro[k] /= "cancelled"

\* C21: for each controller the launch worker process is created and started
\* at most once over every sequence of register, cancel, Delete and coroutine
\* completions: it is created in the step that constructs and starts the
\* controller and by no later step, so a new launch of the same job always
\* goes through a newly constructed controller.
C21_WorkerStartedOncePerController ==
    [][ /\ \A i \in 1..Len(ctrl) :
              /\ ctrl'[i].n_proc = ctrl[i].n_proc
              /\ ctrl'[i].started = ctrl[i].started
              /\ ctrl[i].n_proc = IF ctrl[i].started THEN 1 ELSE 0
              /\ ctrl'[i].proc \in { ctrl[i].proc, "closed" }
        /\ Len(ctrl') \in { Len(ctrl), Len(ctrl) + 1 }
        /\ Len(ctrl') = Len(ctrl) + 1 =>
              ctrl'[Len(ctrl')].n_proc = IF ctrl'[Len(ctrl')].started THEN 1 ELSE 0
      ]_vars

\* The same job was launched twice, by two controllers with one worker each:
\* the first is DONE with its worker cleaned up, the second's worker runs.
C21_Witness ==
    \E i, j \in 1..Len(ctrl) :
        /\ i < j
        /\ unique_id(ctrl[i]) = unique_id(ctrl[j])
        /\ ctrl[i].n_proc = 1 /\ ctrl[i].proc = "closed" /\ ctrl[i].n_clean = 1
        /\ ctrl[j].n_proc = 1 /\ ctrl[j].proc = "running"

\* C22: on every path by which the launch poller returns or raises (the
\* worker exited by itself, the worker raised, or a terminal signal was
\* observed while it was still running) the worker process has been
\* terminated, joined and closed when the poller ends, and this clean-up has
\* run exactly once; it runs nowhere else.
C22_CleanUpExactlyOnce ==
    \A i \in 1..Len(ctrl) :
        /\ ctrl[i].n_clean <= 1
        /\ ctrl[i].coro["launch"] \in { "ok", "exc" } =>
               ctrl[i].n_clean = 1 /\ ctrl[i].proc = "closed"
        /\ ctrl[i].coro["launch"] \in { "none", "created", "sleeping" } =>
               ctrl[i].n_clean = 0 /\ ctrl[i].proc /= "closed"
        /\ ctrl[i].n_clean = 1 => ctrl[i].coro["launch"] \in { "ok", "exc" }

\* The poller observed the cancel signal after a sleep and returned: the
\* worker, which had sent nothing and raised nothing, is closed after one
\* clean-up.
C22_Witness ==
    \E i \in 1..Len(ctrl) :
        /\ ctrl[i].coro["launch"] = "ok"
        /\ ctrl[i].ev.cancel /\ ~ ctrl[i].ev.launch_done /\ ~ ctrl[i].raised
        /\ ctrl[i].proc = "closed" /\ ctrl[i].n_clean = 1

\* The normalized phases.
Phases == { "PENDING", "RUNNING", "SUCCEEDED", "FAILED", "ABORTED" }

\* C23 as stated: for each job_launch_type, Get maps every status value of
\* the provisioner to exactly one normalized phase of PENDING, RUNNING,
\* SUCCEEDED, FAILED, ABORTED, and a value with no mapping for the launch
\* type gives FAILED with a non-empty message.
C23_StatusMappingComplete ==
    (get_result /= None /\ get_result.content \notin { "missing", "unparsable" }) =>
        /\ ~ get_result.raised
        /\ get_result.phase \in Phases
        /\ get_result.content \notin LAUNCH_TYPE_TO_SKY_STATUS[get_result.job_launch_type] =>
               get_result.phase = "FAILED" /\ get_result.message /= None

\* The response of the plugin registered under task_type to a call.
PluginResponse(method, task_type, job_id) ==
    CASE method = "CreateTask" -> plugin_create(task_type)
      [] method = "GetTask" -> plugin_get(task_type, job_id)
      [] method = "DeleteTask" -> plugin_delete(task_type, job_id)

\* C24: the backend plugin server routes CreateTask, GetTask and DeleteTask
\* to the plugin registered under the request's task type and returns that
\* plugin's response unchanged: for the registered dummy plugin, create
\* returns its job id dummy_id, get its state SUCCEEDED and delete its
\* TaskDeleteResponse, whatever other plugins are registered.
C24_ServerRoutesToPlugin ==
    (rpc /= None /\ rpc.registered) =>
        /\ ~ rpc.raised
        /\ rpc.response = << PluginResponse(rpc.method, rpc.task_type, rpc.job_id) >>
        /\ rpc.task_type = "dummy" =>
              /\ rpc.method = "CreateTask" => rpc.response[1].job_id = "dummy_id"
              /\ rpc.method = "GetTask" => rpc.response[1].state = "SUCCEEDED"
              /\ rpc.method = "DeleteTask" =>
                    rpc.response[1] = [ kind |-> "TaskDeleteResponse" ]

\* GetTask for the dummy plugin returned SUCCEEDED while a second plugin is
\* registered too.
C24_Witness ==
    /\ rpc /= None /\ rpc.registered
    /\ rpc.method = "GetTask" /\ rpc.task_type = "dummy" /\ rpc.job_id = "dummy_id"
    /\ rpc.response = << [ kind |-> "TaskGetResponse", state |-> "SUCCEEDED" ] >>
    /\ plugin_registry = { "dummy", "sql" }

\* C25: GetTask on the backend plugin server with a task type for which no
\* plugin is registered returns None and does not raise.
C25_UnregisteredGetReturnsNone ==
    (rpc /= None /\ rpc.method = "GetTask" /\ ~ rpc.registered) =>
        ~ rpc.raised /\ rpc.response = None

\* GetTask was called with task type "fake", which has no plugin, while the
\* dummy plugin is registered: it returned None.
C25_Witness ==
    /\ rpc /= None /\ rpc.method = "GetTask" /\ ~ rpc.registered
    /\ rpc.task_type = "fake" /\ rpc.job_id = "dummy_id"
    /\ "dummy" \in plugin_registry /\ "fake" \notin plugin_registry
    /\ rpc.response = None /\ ~ rpc.raised

\* C26 as stated: the launch_done signal is set only if the launch worker
\* completed the launch call without failure: a worker that exited without
\* having sent anything on the pipe does not cause launch_done to be set.
C26_LaunchDoneOnlyOnSuccess ==
    [][ \A i \in 1..Len(ctrl) :
          (~ ctrl[i].ev.launch_done /\ ctrl'[i].ev.launch_done) =>
              ctrl[i].proc = "sent_none"
      ]_vars

\* Every started controller on the cluster cl is DONE once the step is over.
AllDoneOnCluster(cl) ==
    \A j \in 1..Len(ctrl') :
        (ctrl'[j].started /\ ctrl'[j].cluster_name = cl) => ctrl'[j].task_status = "DONE"

\* C27: the teardown callback is always invoked after the controller's status
\* was set to DONE (in the same done-callback, from INIT), so the scan of
\* on_task_deleted for INIT controllers on the cluster never counts the
\* terminating controller itself; and when the last started controller on a
\* cluster becomes DONE, sky.stop is called for that cluster in that very
\* teardown, so once every started controller on a cluster is DONE the
\* deprovisioning has been called at or after that moment.
C27_TeardownAfterDone ==
    [][ \A i \in 1..Len(ctrl) :
          /\ TornDown(i) =>
                /\ ctrl[i].task_status = "INIT" /\ ctrl'[i].task_status = "DONE"
                /\ ctrl[i].task_name \notin
                      { t \in running_tasks_on_cluster(registry, ctrl', ctrl'[i]) :
                            registry[t] = i }
                /\ AllDoneOnCluster(ctrl[i].cluster_name) =>
                      /\ stop_calls'[ctrl[i].cluster_name] =
                             stop_calls[ctrl[i].cluster_name] + 1
                      /\ ctrl'[i].sky_stop /= "none"
          /\ (ctrl[i].task_status = "INIT" /\ ctrl'[i].task_status = "DONE") => TornDown(i)
          /\ (ctrl[i].started /\ AllDoneOnCluster(ctrl[i].cluster_name)) =>
                stop_calls'[ctrl[i].cluster_name] >= 1
      ]_vars

\* Two jobs on one cluster are DONE: the teardown of the first, with the
\* second still INIT, called no sky.stop; the teardown of the last did.
C27_Witness ==
    \E i, j \in 1..Len(ctrl) :
        /\ i /= j
        /\ ctrl[i].started /\ ctrl[j].started
        /\ ctrl[i].cluster_name = ctrl[j].cluster_name
        /\ ctrl[i].task_status = "DONE" /\ ctrl[j].task_status = "DONE"
        /\ ctrl[i].sky_stop = "none" /\ ctrl[j].sky_stop = "ok"
        /\ stop_calls[ctrl[i].cluster_name] = 1

\* C28: remote_deletion uploads the deletion marker for the job in every
\* case, and runs sky.down before that if and only if the liveness check
\* reports the tracker as not alive; while the tracker is reported alive a
\* Delete from a non-owning process deprovisions nothing.
C28_MarkerUploadedAlways ==
    [][ RemoteDeleteStep =>
          /\ remote_call'.uploaded
          /\ (remote_call'.sky_down /= "none") <=> ~ remote_call'.alive
          /\ remote_call'.alive => down_calls' = down_calls
      ]_vars

\* The containers, the volumes and a container's mounts of a pod template,
\* a missing list read as empty.
ContainersOf(pt) == IF pt.pod_spec = None THEN << >> ELSE OrEmpty(pt.pod_spec[1].containers)
VolumesOf(pt) == IF pt.pod_spec = None THEN << >> ELSE OrEmpty(pt.pod_spec[1].volumes)
MountsOf(c) == OrEmpty(c.volume_mounts)

\* C29: add_shared_mem_volume_to_pod_template on a pod template with more
\* than one container raises ValueError and adds no volume mount to any
\* container, but the shm volume has already been appended to
\* pod_spec.volumes when the error is raised; with zero or one container it
\* does not raise and ends with exactly one container, whose volume_mounts
\* is what it was with the /dev/shm mount appended (and the shm volume is
\* appended as well).
C29_SharedMemVolume ==
    [][ (pod_calls' = pod_calls + 1) =>
          LET before == ContainersOf(pod_template)
              after == ContainersOf(pod_template')
          IN /\ VolumesOf(pod_template') = Append(VolumesOf(pod_template), shm_volume)
             /\ Len(before) > 1 =>
                   /\ pod_raised'
                   /\ after = before
             /\ Len(before) <= 1 =>
                   /\ ~ pod_raised'
                   /\ Len(after) = 1
                   /\ MountsOf(after[1]) =
                         Append(IF Len(before) = 1 THEN MountsOf(before[1]) ELSE << >>,
                                shm_volume_mount)
                   /\ after[1].name = IF Len(before) = 1 THEN before[1].name ELSE "primary"
      ]_vars

\* A call on a template with two containers raised: the shm volume is the
\* last of pod_spec.volumes, after the caller's own, and no container has
\* the /dev/shm mount.
C29_Witness ==
    /\ pod_calls = 1 /\ pod_raised
    /\ Len(ContainersOf(pod_template)) = 2
    /\ VolumesOf(pod_template) = << data_volume, shm_volume >>
    /\ \A k \in 1..2 :
          \A m \in 1..Len(MountsOf(ContainersOf(pod_template)[k])) :
              MountsOf(ContainersOf(pod_template)[k])[m] /= shm_volume_mount

\* C30: send_notification never raises an Exception to its caller: a
\* failure of the secret retrieval, of the client's construction or of the
\* post call with an Exception is caught and logged as one error line, and
\* the success line is logged exactly when the post call returned, after
\* the message was posted.
C30_NoExceptionEscapes ==
    [][ (slack_calls' = slack_calls + 1) =>
          /\ ~ (slack_call'.raised /\ slack_call'.kind = "Exception")
          /\ (slack_call'.fail /= "none" /\ slack_call'.kind = "Exception") =>
                /\ slack_log' = Append(slack_log, "error")
                /\ slack_posted' = slack_posted
          /\ (slack_log' = Append(slack_log, "info")) <=>
                (slack_posted' = Append(slack_posted, slack_call'.message))
          /\ (slack_posted' /= slack_posted) <=> (slack_call'.fail = "none")
          /\ Len(slack_log') <= Len(slack_log) + 1
      ]_vars

\* A failed post was caught and logged, and the next notification went out.
C30_Witness ==
    /\ slack_calls = 2
    /\ slack_log = << "error", "info" >>
    /\ Len(slack_posted) = 1
    /\ slack_call /= None /\ slack_call.fail = "none" /\ ~ slack_call.raised
====
